---- MODULE Spec2Model ----
(***************************************************************************)
(* Model of src/answer.py: the Ubuntu Image Fetcher.                       *)
(*                                                                         *)
(* main() seeds a set of content hashes from the output directory, reads   *)
(* URLs, and calls download_image() once per URL.  download_image() is     *)
(* modelled step by step (request, header checks, staging file, streaming, *)
(* hashing, duplicate check, rename, index update) so that the states in   *)
(* the middle of a call are visible.                                       *)
(*                                                                         *)
(* Strings that the code inspects character by character (content types,   *)
(* URL prefixes) are sequences of one-character strings.  A file's content *)
(* is the sequence of chunks written to it.  A file name is a record       *)
(* [stem, ts, ext, tmps]: tmps counts trailing ".tmp" suffixes, ts is the  *)
(* timestamp of a synthesized name (0 for names taken from a URL).         *)
(***************************************************************************)
EXTENDS Integers, Sequences, FiniteSets, TLC

\* ------------------------------------------------------------------ bounds
MaxUrls == 2
MaxChunks == 1
MaxByte == 1
MaxClock == 1

\* --------------------------------------------------------------- constants
SizeLimitOffByOne == 10 * 1024 * 1024 - 1

SizeLimit == 10 * 1024 * 1024

\* ----------------------------------------------------------------- strings
UpperCase == <<"A","B","C","D","E","F","G","H","I","J","K","L","M",
               "N","O","P","Q","R","S","T","U","V","W","X","Y","Z">>
LowerCase == <<"a","b","c","d","e","f","g","h","i","j","k","l","m",
               "n","o","p","q","r","s","t","u","v","w","x","y","z">>

LowerChar(c) ==
  IF \E i \in 1..26 : UpperCase[i] = c
    THEN LowerCase[CHOOSE i \in 1..26 : UpperCase[i] = c]
    ELSE c

\* str.lower()
Lower(s) == [i \in 1..Len(s) |-> LowerChar(s[i])]

HasSchemeSeparator(s, p) ==
  \E i \in 1..(Len(s) - 2) : SubSeq(s, i, i + 2) = <<":","/","/">>

\* str.startswith(p)
StartsWith(s, p) == Len(s) >= Len(p) /\ SubSeq(s, 1, Len(p)) = p

\* str.strip(), for blanks
RECURSIVE Strip(_)
Strip(s) ==
  IF s = <<>> THEN s
  ELSE IF Head(s) = " " THEN Strip(Tail(s))
  ELSE IF s[Len(s)] = " " THEN Strip(SubSeq(s, 1, Len(s) - 1))
  ELSE s

T_jpeg == <<"i","m","a","g","e","/","j","p","e","g">>
T_png  == <<"i","m","a","g","e","/","p","n","g">>
T_gif  == <<"i","m","a","g","e","/","g","i","f">>
T_bmp  == <<"i","m","a","g","e","/","b","m","p">>

valid_types == {T_jpeg, T_png, T_gif, T_bmp}

NoLowerTypeCheck(content_type) == content_type \in valid_types

PrefixTypeCheck(content_type) ==
  StartsWith(Lower(content_type), <<"i","m","a","g","e","/">>)

is_valid_image_content_type(content_type) == Lower(content_type) \in valid_types

\* Content types a server may declare; <<>> is the default of
\* headers.get('content-type', '') when the header is missing.
ContentTypes ==
  { T_jpeg,
    <<"I","M","A","G","E","/","P","N","G">>,
    <<"i","m","a","g","e","/","w","e","b","p">>,
    <<"i","m","a","g","e","/","p","n","g",";","q">>,
    <<>> }

\* the local content_type before line 36 has assigned it
NotRead == <<"?">>

\* mimetypes.guess_extension(type): the lookup lower-cases the type; "" is
\* the model of None (no extension known).
guess_extension(content_type) ==
  LET t == Lower(content_type) IN
    IF t = T_jpeg THEN ".jpg"
    ELSE IF t = T_png THEN ".png"
    ELSE IF t = T_gif THEN ".gif"
    ELSE IF t = T_bmp THEN ".bmp"
    ELSE ""

\* ------------------------------------------------------- content-length
\* headers.get('content-length'): None, or the header's text.  The text is
\* empty, a decimal number, or something int() rejects with ValueError.
NoHeader == [kind |-> "none", val |-> 0]
ContentLengths ==
  { NoHeader,
    [kind |-> "garbage", val |-> 0],
    [kind |-> "digits", val |-> SizeLimit],
    [kind |-> "digits", val |-> SizeLimit + 1] }

\* truthiness of the header value: None and '' are falsy
Truthy(cl) == cl.kind \in {"garbage", "digits"}

\* int(text) raises ValueError
IntRaises(cl) == cl.kind = "garbage"

\* ---------------------------------------------------------------- hashing
Bytes == 1..MaxByte

\* calculate_file_hash: the digest is updated block by block, in order.
\* The digest is wide enough that distinct modelled contents get distinct
\* digests (the fold is a positional encoding with radix MaxByte + 1).
RECURSIVE HashUpdate(_, _, _)
HashUpdate(h, content, i) ==
  IF i > Len(content) THEN h
  ELSE HashUpdate(h * (MaxByte + 1) + content[i], content, i + 1)

calculate_file_hash(content) == HashUpdate(0, content, 1)

\* -------------------------------------------------------------- file names
EmptyName == [stem |-> "", ts |-> 0, ext |-> "", tmps |-> 0]
Unbound == [stem |-> "?", ts |-> 0, ext |-> "", tmps |-> 0]

\* filepath + '.tmp'
Tmp(name) == [name EXCEPT !.tmps = @ + 1]

H_http  == <<"h","t","t","p",":","/","/">>
H_https == <<"h","t","t","p","s",":","/","/">>
H_ftp   == <<"f","t","p",":","/","/">>

\* an input line: its leading characters and the base name of its path
\* ('', a.png, a.png.tmp); the first line is typed with a leading blank
Lines == { [head |-> <<" ">> \o H_http,  base |-> EmptyName],
           [head |-> H_https, base |-> [stem |-> "a", ts |-> 0, ext |-> ".png", tmps |-> 0]],
           [head |-> H_http,  base |-> [stem |-> "a", ts |-> 0, ext |-> ".png", tmps |-> 1]],
           [head |-> H_ftp,   base |-> [stem |-> "a", ts |-> 0, ext |-> ".png", tmps |-> 0]] }

\* directories the program may find at startup: empty, one file, two files
\* of different content, two files of the same content
B_png == [stem |-> "b", ts |-> 0, ext |-> ".png", tmps |-> 0]
A_png_tmp == [stem |-> "a", ts |-> 0, ext |-> ".png", tmps |-> 1]
InitDirs ==
  { <<>>,
    [n \in {A_png_tmp} |-> <<1>>],
    [n \in {B_png, A_png_tmp} |-> IF n = B_png THEN <<1>> ELSE <<1, 1>>],
    [n \in {B_png, A_png_tmp} |-> <<1>>] }

VARIABLES
  dir,              \* output directory: file name -> content
  dir0,             \* the directory as it was at startup (history)
  finals,           \* names present at startup or promoted by a rename (history)
  existing_hashes,  \* main's set of known hashes
  urls,             \* main's list of accepted URLs
  idx,              \* position of the for loop in urls
  success_count,
  now,              \* wall clock, in seconds
  pc,               \* where the program is
  entered,          \* the line main read last and what it printed about it
  url,              \* download_image's argument
  status,           \* response.status_code, 0 while there is no response
  content_type, content_length,
  filepath, temp_filepath,
  received,         \* chunks yielded by iter_content so far
  file_hash,
  out,              \* outcome of the current/last call
  pre,              \* directory, index and final names when the current call
                    \* started (history)
  prev              \* the call before the current one, if it succeeded (history)

vars == <<dir, dir0, finals, existing_hashes, urls, idx, success_count, now, pc,
          entered,
          url, status, content_type, content_length, filepath, temp_filepath,
          received, file_hash, out, pre, prev>>

callvars == <<url, status, content_type, content_length, filepath, temp_filepath,
              received, file_hash, out, pre, prev>>

mainvars == <<urls, idx, success_count, entered>>

Exists(name) == name \in DOMAIN dir

RemoveNothing(d, name) == d

\* os.remove(name)
Remove(d, name) == [n \in DOMAIN d \ {name} |-> d[n]]

\* open(name, 'wb'): creates or truncates
Truncate(d, name) == [n \in DOMAIN d \cup {name} |-> IF n = name THEN <<>> ELSE d[n]]

\* f.write(chunk)
WriteChunk(d, name, c) == [d EXCEPT ![name] = Append(@, c)]

RenameKeepsSource(d, src, dst) ==
  [n \in DOMAIN d \cup {dst} |-> IF n = dst THEN d[src] ELSE d[n]]

\* os.rename(src, dst): dst is replaced if it exists
Rename(d, src, dst) ==
  [n \in (DOMAIN d \ {src}) \cup {dst} |-> IF n = dst THEN d[src] ELSE d[n]]

NoUrl == [head |-> <<>>, base |-> EmptyName]
NoCall == [url |-> NoUrl, body |-> <<>>, filepath |-> Unbound]

Init ==
  /\ dir \in InitDirs
  /\ dir0 = dir
  /\ finals = DOMAIN dir
  /\ existing_hashes = {}
  /\ urls = <<>>
  /\ idx = 1
  /\ success_count = 0
  /\ now = 0
  /\ pc = "seed"
  /\ entered = [line |-> NoUrl, msg |-> "none"]
  /\ url = NoUrl
  /\ status = 0
  /\ content_type = NotRead
  /\ content_length = NoHeader
  /\ filepath = Unbound
  /\ temp_filepath = Unbound
  /\ received = <<>>
  /\ file_hash = 0
  /\ out = "none"
  /\ pre = [dir |-> dir, hashes |-> {}, finals |-> finals]
  /\ prev = NoCall

\* main, lines 97-102
Seed ==
  /\ pc = "seed"
  /\ existing_hashes' = { calculate_file_hash(dir[n]) : n \in DOMAIN dir }
  /\ pre' = [dir |-> dir, hashes |-> existing_hashes', finals |-> finals]
  /\ pc' = "input"
  /\ UNCHANGED <<dir, dir0, finals, mainvars, now,
                 url, status, content_type, content_length, filepath, temp_filepath,
                 received, file_hash, out, prev>>

\* main, lines 107-114: one non-empty line is read, stripped, and appended
\* to urls or reported as invalid
Input(line) ==
  /\ pc = "input"
  /\ Len(urls) < MaxUrls
  /\ LET u == [head |-> Strip(line.head), base |-> line.base]
         ok == StartsWith(u.head, H_http) \/ StartsWith(u.head, H_https)
     IN /\ urls' = IF ok THEN Append(urls, u) ELSE urls
        /\ entered' = [line |-> u, msg |-> IF ok THEN "none" ELSE "invalid_url"]
  /\ UNCHANGED <<dir, dir0, finals, existing_hashes, idx, success_count, now, pc, callvars>>

\* main, lines 109-118: the empty line ends the input
EndInput ==
  /\ pc = "input"
  /\ pc' = IF urls = <<>> THEN "nourls" ELSE "loop"
  /\ entered' = [line |-> NoUrl, msg |-> IF urls = <<>> THEN "no_valid_urls" ELSE "none"]
  /\ UNCHANGED <<dir, dir0, finals, existing_hashes, urls, idx, success_count, now, callvars>>

\* the clock advances between calls
Tick ==
  /\ pc = "loop"
  /\ now < MaxClock
  /\ now' = now + 1
  /\ UNCHANGED <<dir, dir0, finals, existing_hashes, mainvars, pc, callvars>>

\* main, lines 122-123: the for loop calls download_image
Call ==
  /\ pc = "loop"
  /\ idx <= Len(urls)
  /\ url' = urls[idx]
  /\ pre' = [dir |-> dir, hashes |-> existing_hashes, finals |-> finals]
  /\ pc' = "get"
  /\ UNCHANGED <<dir, dir0, finals, existing_hashes, mainvars, now,
                 status, content_type, content_length, filepath, temp_filepath,
                 received, file_hash, out, prev>>

\* main, lines 126-130
Summary ==
  /\ pc = "loop"
  /\ idx > Len(urls)
  /\ pc' = "summary"
  /\ UNCHANGED <<dir, dir0, finals, existing_hashes, mainvars, now, callvars>>

\* ------------------------------------------------------- download_image
Statuses == {200, 304, 404, 503}

\* Response.raise_for_status(): HTTPError for 4xx and 5xx
RaisesForStatus(code) == 400 <= code /\ code < 600

\* the call returns False / True, or an exception leaves it
Return(outcome) ==
  /\ out' = outcome
  /\ pc' = "returned"

\* lines 82-86: except Exception
ExceptException ==
  IF temp_filepath = Unbound
    THEN \* os.path.exists(temp_filepath): UnboundLocalError leaves the call
         /\ Return("raised")
         /\ UNCHANGED <<dir, finals>>
    ELSE /\ dir' = IF Exists(temp_filepath) THEN Remove(dir, temp_filepath) ELSE dir
         /\ finals' = finals \ {temp_filepath}
         /\ Return("processing")

\* lines 32-33, transport error or HTTPError: except RequestException
GetFails ==
  /\ pc = "get"
  /\ Return("network")
  /\ UNCHANGED <<dir, dir0, finals, existing_hashes, mainvars, now,
                 url, status, content_type, content_length, filepath, temp_filepath,
                 received, file_hash, pre, prev>>

\* lines 32-42: a response arrives, its headers are read
Get(code, ct, cl) ==
  /\ pc = "get"
  /\ status' = code
  /\ IF RaisesForStatus(code)
       THEN /\ Return("network")
            /\ UNCHANGED <<content_type, content_length>>
       ELSE /\ content_type' = ct
            /\ content_length' = cl
            /\ pc' = "validate"
            /\ out' = out
  /\ UNCHANGED <<dir, dir0, finals, existing_hashes, mainvars, now,
                 url, filepath, temp_filepath, received, file_hash, pre, prev>>

FileNameByExtension(u, ct, t) ==
  IF u.base = EmptyName \/ guess_extension(ct) = ""
     \/ u.base.tmps > 0 \/ u.base.ext # guess_extension(ct)
    THEN [stem |-> "image_", ts |-> t,
          ext |-> IF guess_extension(ct) # "" THEN guess_extension(ct) ELSE ".jpg",
          tmps |-> 0]
    ELSE u.base

\* lines 48-54: the file name
FileName(u, ct, t) ==
  IF u.base = EmptyName \/ guess_extension(ct) = ""
    THEN [stem |-> "image_", ts |-> t,
          ext |-> IF guess_extension(ct) # "" THEN guess_extension(ct) ELSE ".jpg",
          tmps |-> 0]
    ELSE u.base

\* lines 37-59: header checks, file name, staging path
Validate ==
  /\ pc = "validate"
  /\ IF ~ is_valid_image_content_type(content_type)
       THEN /\ Return("invalid_type")
            /\ UNCHANGED <<dir, finals, filepath, temp_filepath>>
       ELSE IF Truthy(content_length) /\ IntRaises(content_length)
       THEN /\ ExceptException
            /\ UNCHANGED <<filepath, temp_filepath>>
       ELSE IF Truthy(content_length) /\ content_length.val > SizeLimit
       THEN /\ Return("too_large")
            /\ UNCHANGED <<dir, finals, filepath, temp_filepath>>
       ELSE /\ filepath' = FileName(url, content_type, now)
            /\ temp_filepath' = Tmp(filepath')
            /\ pc' = "open"
            /\ UNCHANGED <<dir, finals, out>>
  /\ UNCHANGED <<dir0, existing_hashes, mainvars, now,
                 url, status, content_type, content_length, received, file_hash, pre, prev>>

\* line 60: open(temp_filepath, 'wb')
Open ==
  /\ pc = "open"
  /\ dir' = Truncate(dir, temp_filepath)
  /\ pc' = "stream"
  /\ UNCHANGED <<dir0, finals, existing_hashes, mainvars, now, callvars>>

\* lines 61-62: one chunk is received and written
Chunk(c) ==
  /\ pc = "stream"
  /\ Len(received) < MaxChunks
  /\ received' = Append(received, c)
  /\ dir' = WriteChunk(dir, temp_filepath, c)
  /\ UNCHANGED <<dir0, finals, existing_hashes, mainvars, now, pc,
                 url, status, content_type, content_length, filepath, temp_filepath,
                 file_hash, out, pre, prev>>

\* line 61: iter_content raises a RequestException (connection lost,
\* broken chunked encoding, read timeout); lines 79-81 return False
StreamFails ==
  /\ pc = "stream"
  /\ Return("network")
  /\ UNCHANGED <<dir, dir0, finals, existing_hashes, mainvars, now,
                 url, status, content_type, content_length, filepath, temp_filepath,
                 received, file_hash, pre, prev>>

\* lines 60-72: open, write, the hash's read or the rename raises OSError
OSErrorRaised ==
  /\ pc \in {"open", "stream", "hash", "rename"}
  /\ ExceptException
  /\ UNCHANGED <<dir0, existing_hashes, mainvars, now,
                 url, status, content_type, content_length, filepath, temp_filepath,
                 received, file_hash, pre, prev>>

\* line 61: the body ends
EndOfBody ==
  /\ pc = "stream"
  /\ pc' = "hash"
  /\ UNCHANGED <<dir, dir0, finals, existing_hashes, mainvars, now, callvars>>

\* line 65: file_hash = calculate_file_hash(temp_filepath)
HashStaged ==
  /\ pc = "hash"
  /\ file_hash' = calculate_file_hash(dir[temp_filepath])
  /\ pc' = "check"
  /\ UNCHANGED <<dir, dir0, finals, existing_hashes, mainvars, now,
                 url, status, content_type, content_length, filepath, temp_filepath,
                 received, out, pre, prev>>

DuplicateCheckAddsEarly ==
  /\ pc = "check"
  /\ IF file_hash \in existing_hashes
       THEN /\ dir' = Remove(dir, temp_filepath)
            /\ finals' = finals \ {temp_filepath}
            /\ Return("duplicate")
            /\ UNCHANGED existing_hashes
       ELSE /\ pc' = "rename"
            /\ existing_hashes' = existing_hashes \cup {file_hash}
            /\ UNCHANGED <<dir, finals, out>>
  /\ UNCHANGED <<dir0, mainvars, now,
                 url, status, content_type, content_length, filepath, temp_filepath,
                 received, file_hash, pre, prev>>

\* lines 66-69: a duplicate is removed and reported
DuplicateCheck ==
  /\ pc = "check"
  /\ IF file_hash \in existing_hashes
       THEN /\ dir' = Remove(dir, temp_filepath)
            /\ finals' = finals \ {temp_filepath}
            /\ Return("duplicate")
       ELSE /\ pc' = "rename"
            /\ UNCHANGED <<dir, finals, out>>
  /\ UNCHANGED <<dir0, existing_hashes, mainvars, now,
                 url, status, content_type, content_length, filepath, temp_filepath,
                 received, file_hash, pre, prev>>

\* line 72: os.rename(temp_filepath, filepath)
RenameStep ==
  /\ pc = "rename"
  /\ dir' = Rename(dir, temp_filepath, filepath)
  /\ finals' = (finals \ {temp_filepath}) \cup {filepath}
  /\ pc' = "add"
  /\ UNCHANGED <<dir0, existing_hashes, mainvars, now, callvars>>

AddHashForgets ==
  /\ pc = "add"
  /\ Return("success")
  /\ UNCHANGED <<dir, dir0, finals, existing_hashes, mainvars, now,
                 url, status, content_type, content_length, filepath, temp_filepath,
                 received, file_hash, pre, prev>>

\* lines 73-77: existing_hashes.add(file_hash); return True
AddHash ==
  /\ pc = "add"
  /\ existing_hashes' = existing_hashes \cup {file_hash}
  /\ Return("success")
  /\ UNCHANGED <<dir, dir0, finals, mainvars, now,
                 url, status, content_type, content_length, filepath, temp_filepath,
                 received, file_hash, pre, prev>>

\* main, lines 123-124: the call's result reaches the loop; an exception
\* that left download_image is not caught in main
Returned ==
  /\ pc = "returned"
  /\ IF out = "raised"
       THEN /\ pc' = "crashed"
            /\ UNCHANGED <<idx, success_count>>
       ELSE /\ success_count' = IF out = "success" THEN success_count + 1 ELSE success_count
            /\ idx' = idx + 1
            /\ pc' = "loop"
  \* the call's locals are gone
  /\ url' = NoUrl
  /\ status' = 0
  /\ content_type' = NotRead
  /\ content_length' = NoHeader
  /\ filepath' = Unbound
  /\ temp_filepath' = Unbound
  /\ received' = <<>>
  /\ file_hash' = 0
  /\ out' = "none"
  /\ pre' = [dir |-> dir, hashes |-> existing_hashes, finals |-> finals]
  /\ prev' = IF out = "success"
               THEN [url |-> url, body |-> received, filepath |-> filepath]
               ELSE NoCall
  /\ UNCHANGED <<dir, dir0, finals, existing_hashes, urls, entered, now>>

Next ==
  \/ Seed
  \/ \E line \in Lines : Input(line)
  \/ EndInput
  \/ Tick
  \/ Call
  \/ GetFails
  \/ \E code \in Statuses, ct \in ContentTypes, cl \in ContentLengths : Get(code, ct, cl)
  \/ Validate
  \/ Open
  \/ \E c \in Bytes : Chunk(c)
  \/ StreamFails
  \/ OSErrorRaised
  \/ EndOfBody
  \/ HashStaged
  \/ DuplicateCheck
  \/ RenameStep
  \/ AddHash
  \/ Returned
  \/ Summary

Spec == Init /\ [][Next]_vars

\* lines 60-72 raise OSError while the staging file exists, and the
\* os.remove(temp_filepath) of the handler (line 85) raises as well: the
\* second exception is raised inside the except clause and leaves the call
CleanupFails ==
  /\ pc \in {"open", "stream", "hash", "rename"}
  /\ temp_filepath # Unbound
  /\ Exists(temp_filepath)
  /\ Return("raised")
  /\ UNCHANGED <<dir, dir0, finals, existing_hashes, mainvars, now,
                 url, status, content_type, content_length, filepath, temp_filepath,
                 received, file_hash, pre, prev>>

NextRemoveFails == Next \/ CleanupFails

\* the program on a file system where removing the staging file can fail
SpecRemoveFails == Init /\ [][NextRemoveFails]_vars

\* ================================================================ claims
\* states in which the current call has got past the header checks or is over
AfterValidate == {"open", "stream", "hash", "check", "rename", "add", "returned"}

\* C1: after a call of download_image has completed, whatever its outcome,
\* the staging file <finalPath>.tmp that the call created no longer exists.
C1_NoStagedFileAfterCall ==
  (pc = "returned" /\ temp_filepath # Unbound) => ~ Exists(temp_filepath)

\* C2: download_image never raises: every call ends with an outcome that
\* main's loop receives, and the batch is never aborted.
C2_CallNeverRaises ==
  /\ pc = "returned" => out # "raised"
  /\ pc # "crashed"

C1_LeftoverStagedFile ==
  pc = "returned" /\ out = "network" /\ temp_filepath # Unbound /\ Exists(temp_filepath)

\* C4: a second call on the same URL that receives the same bytes as the
\* successful call right before it reports a duplicate, creates or changes
\* no file, leaves the index alone, and the one file made by the first call
\* still holds those bytes.
C4_SecondFetchIsDuplicate ==
  ( /\ pc = "returned"
    /\ prev # NoCall /\ prev.url = url /\ prev.body = received
    /\ out \notin {"network", "invalid_type", "too_large", "processing", "raised"} )
  => /\ out = "duplicate"
     /\ \A n \in DOMAIN dir : n \in DOMAIN pre.dir /\ dir[n] = pre.dir[n]
     /\ existing_hashes = pre.hashes
     /\ Exists(prev.filepath) /\ dir[prev.filepath] = received

\* C4 witness: the same URL fetched twice in a row with the same bytes, the
\* first call having succeeded on content that was not known before.
C4_Witness ==
  /\ pc = "returned" /\ out = "duplicate"
  /\ prev # NoCall /\ prev.url = url /\ prev.body = received
  /\ success_count = 1
  /\ calculate_file_hash(received) \notin { calculate_file_hash(dir0[n]) : n \in DOMAIN dir0 }

\* the files at startup have pairwise different contents
InitDistinct == \A m, n \in DOMAIN dir0 : m # n => dir0[m] # dir0[n]

\* C5: from a directory without two files of the same content, between and
\* after the calls no two final files have the same content hash.
C5_NoTwoFinalsShareHash ==
  (pc \in {"returned", "loop", "summary"} /\ InitDistinct) =>
     \A m, n \in finals \cap DOMAIN dir :
        m # n => calculate_file_hash(dir[m]) # calculate_file_hash(dir[n])

\* C6: at every state of a call, every file under a final name holds either
\* the content it had when the call started or the complete body of the
\* download that passed the duplicate check and was renamed onto it.
C6_FinalNamesHoldAcceptedContent ==
  pc \in {"get", "validate"} \cup AfterValidate =>
    \A n \in finals \cap DOMAIN dir :
       \/ n \in DOMAIN pre.dir /\ dir[n] = pre.dir[n]
       \/ /\ n = filepath /\ pc \in {"add", "returned"}
          /\ dir[n] = received
          /\ calculate_file_hash(received) \notin pre.hashes

\* C7: on success the final path holds exactly the received body, the
\* staging path is gone and the body's hash is in the index; the index
\* differs from its value at the start of the call only once that holds.
C7_SuccessPostcondition ==
  /\ (pc = "returned" /\ out = "success") =>
        /\ Exists(filepath) /\ dir[filepath] = received
        /\ ~ Exists(temp_filepath)
        /\ calculate_file_hash(received) \in existing_hashes
        /\ calculate_file_hash(received) \notin pre.hashes
  /\ existing_hashes # pre.hashes =>
        /\ pc = "returned" /\ out = "success"
        /\ Exists(filepath) /\ dir[filepath] = received
        /\ ~ Exists(temp_filepath)

\* C7 witness: a successful download of a non-empty body.
C7_Witness ==
  /\ pc = "returned" /\ out = "success"
  /\ received # <<>> /\ dir[filepath] = received
  /\ existing_hashes # pre.hashes

\* C8: the index never loses an element; a call that does not succeed
\* leaves it as it was when the call started; a successful call adds
\* exactly the hash of the file it promoted, which was not in it before.
C8_IndexAppendOnly ==
  /\ []( (pc = "returned" /\ out # "success") => existing_hashes = pre.hashes )
  /\ []( (pc = "returned" /\ out = "success") =>
           /\ existing_hashes = pre.hashes \cup {calculate_file_hash(dir[filepath])}
           /\ calculate_file_hash(dir[filepath]) \notin pre.hashes )
  /\ [][existing_hashes \subseteq existing_hashes']_vars

\* C8 witness: a call failed after its rename step was reached, with a
\* non-empty index left untouched.
C8_Witness ==
  /\ pc = "returned" /\ out = "processing"
  /\ file_hash \notin existing_hashes
  /\ existing_hashes # {} /\ existing_hashes = pre.hashes
  /\ received # <<>>

\* s and t are equal up to the case of their letters
EqIgnoreCase(s, t) ==
  /\ Len(s) = Len(t)
  /\ \A i \in 1..Len(s) :
        \/ s[i] = t[i]
        \/ \E k \in 1..26 : {s[i], t[i]} = {UpperCase[k], LowerCase[k]}

AllowedIgnoringCase(ct) == \E t \in {T_jpeg, T_png, T_gif, T_bmp} : EqIgnoreCase(ct, t)

DeclaredTooLarge(cl) == cl.kind = "digits" /\ cl.val > 10485760

\* C9: a response whose content type is outside the allow-list or whose
\* declared length exceeds 10,485,760 is rejected with no chunk read, no
\* file created or changed and the index untouched.
C9_RejectionPersistsNothing ==
  ( /\ pc \in AfterValidate /\ content_type # NotRead
    /\ (~ AllowedIgnoringCase(content_type) \/ DeclaredTooLarge(content_length)) )
  => /\ pc = "returned" /\ out \in {"invalid_type", "too_large"}
     /\ received = <<>>
     /\ dir = pre.dir
     /\ existing_hashes = pre.hashes

\* C9 witness: an allowed type with a declared length above the limit is
\* rejected, in a run whose directory is not empty.
C9_Witness ==
  /\ pc = "returned" /\ out = "too_large"
  /\ AllowedIgnoringCase(content_type) /\ DeclaredTooLarge(content_length)
  /\ dir # <<>> /\ dir = pre.dir

\* C10: once the headers have been checked, the response has been rejected
\* for its content type exactly if the type differs, letter case aside,
\* from all of image/jpeg, image/png, image/gif, image/bmp; the declared
\* length plays no part.
C10_ExactlyAllowList ==
  (pc \in AfterValidate /\ content_type # NotRead) =>
     ((out = "invalid_type") <=> ~ AllowedIgnoringCase(content_type))

\* C10 witness: an allowed type written in capitals is admitted.
C10_Witness ==
  /\ pc = "open"
  /\ content_type \notin valid_types /\ AllowedIgnoringCase(content_type)

\* C11 as stated: a declared length above 10,485,760 is rejected as too
\* large whatever the content type is, and nothing else is rejected as too
\* large.
C11_TooLargeWhateverType ==
  (pc \in AfterValidate /\ content_type # NotRead) =>
     /\ DeclaredTooLarge(content_length) => (pc = "returned" /\ out = "too_large")
     /\ out = "too_large" => DeclaredTooLarge(content_length)

\* C11 amended: a declared length above 10,485,760 is always rejected, as
\* too large when the content type is on the allow-list and as an invalid
\* content type otherwise; a length of at most 10,485,760 or an absent
\* length is never rejected as too large.
C11_SizeRejection ==
  (pc \in AfterValidate /\ content_type # NotRead) =>
     /\ DeclaredTooLarge(content_length) =>
          /\ pc = "returned"
          /\ out = IF AllowedIgnoringCase(content_type) THEN "too_large" ELSE "invalid_type"
     /\ out = "too_large" => DeclaredTooLarge(content_length)

\* C11 witness: a response with a type outside the allow-list and a declared
\* length above the limit has been rejected for its type.
C11_Witness ==
  /\ pc = "returned" /\ out = "invalid_type"
  /\ DeclaredTooLarge(content_length)
  /\ ~ AllowedIgnoringCase(content_type)

\* C12: a response whose status is outside 200..299, or a transport error,
\* ends the call at once with a network failure: no header check is acted
\* on, no chunk is read, no file is written and the index is unchanged.
C12_NonSuccessStatusFailsFast ==
  (pc \in {"validate"} \cup AfterValidate /\ ~ (200 <= status /\ status <= 299)) =>
     /\ pc = "returned" /\ out = "network"
     /\ content_type = NotRead
     /\ received = <<>>
     /\ dir = pre.dir
     /\ existing_hashes = pre.hashes

\* the extension a file name ends with
BaseExt(name) == IF name.tmps > 0 THEN ".tmp" ELSE name.ext

\* the extensions that go with a content type
TypeExts(ct) ==
  IF EqIgnoreCase(ct, T_jpeg) THEN {".jpg", ".jpeg", ".jpe"}
  ELSE IF EqIgnoreCase(ct, T_png) THEN {".png"}
  ELSE IF EqIgnoreCase(ct, T_gif) THEN {".gif"}
  ELSE IF EqIgnoreCase(ct, T_bmp) THEN {".bmp"}
  ELSE {}

\* image_<timestamp><ext>, .jpg when the type has no extension
Synthesized(ct, t) ==
  [stem |-> "image_", ts |-> t,
   ext |-> IF EqIgnoreCase(ct, T_jpeg) THEN ".jpg"
           ELSE IF EqIgnoreCase(ct, T_png) THEN ".png"
           ELSE IF EqIgnoreCase(ct, T_gif) THEN ".gif"
           ELSE IF EqIgnoreCase(ct, T_bmp) THEN ".bmp"
           ELSE ".jpg",
   tmps |-> 0]

\* C13 as stated: the file name is the URL's base name exactly if that base
\* name is non-empty and its extension agrees with the declared content
\* type; otherwise it is image_<timestamp><ext>.
C13_BaseNameIffExtensionAgrees ==
  (pc \in AfterValidate /\ filepath # Unbound) =>
     /\ filepath = url.base <=>
          (url.base # EmptyName /\ BaseExt(url.base) \in TypeExts(content_type))
     /\ filepath # url.base => filepath = Synthesized(content_type, now)

\* C13 amended: the file name is the URL's base name exactly if that base
\* name is non-empty, whatever its extension; otherwise it is
\* image_<timestamp><ext> with the extension of the declared content type.
C13_BaseNameIffNonEmpty ==
  (pc \in AfterValidate /\ filepath # Unbound) =>
     /\ filepath = url.base <=> url.base # EmptyName
     /\ filepath # url.base => filepath = Synthesized(content_type, now)

\* C13 witness: a base name whose extension does not go with the declared
\* content type has been kept as the file name.
C13_Witness ==
  /\ pc = "open"
  /\ url.base # EmptyName
  /\ BaseExt(url.base) \notin TypeExts(content_type)
  /\ filepath = url.base

\* files that were opened as staging files and neither promoted nor removed
StagedFiles == DOMAIN dir \ finals

\* C14: the calls are made one per URL in input order, one at a time: the
\* URL of the call in progress is the one at the loop's position, which
\* has counted the calls already finished, and at no time does more than
\* one staged file exist.
C14_OneCallAtATimeInOrder ==
  /\ pc \in {"get", "validate"} \cup AfterValidate =>
        /\ idx \in 1..Len(urls)
        /\ url = urls[idx]
  /\ Cardinality(StagedFiles) <= 1

\* C15: once the staging path is known, an error in writing, hashing or
\* renaming ends the call with a failure outcome even if the staged file
\* cannot be removed: no exception leaves the call.
C15_CleanupFailureContained ==
  (pc = "returned" /\ temp_filepath # Unbound) => out # "raised"

\* C16: a successful call leaves every final file that existed when it
\* started in place with its content, and adds exactly one final file.
C16_SuccessKeepsEarlierFiles ==
  (pc = "returned" /\ out = "success") =>
     /\ \A n \in pre.finals : n \in DOMAIN dir /\ dir[n] = pre.dir[n]
     /\ Cardinality(finals \cap DOMAIN dir) = Cardinality(pre.finals) + 1

\* C17: a call that returns failure leaves the set of final files and the
\* content of each of them as they were when the call started.
C17_FailureKeepsFinalFiles ==
  (pc = "returned" /\ out \notin {"success", "raised"}) =>
     /\ finals \cap DOMAIN dir = pre.finals
     /\ \A n \in pre.finals : n \in DOMAIN dir /\ dir[n] = pre.dir[n]

\* C18: once the index has been seeded, whenever no call is in progress the
\* content hash of every final file in the directory is in the index.
C18_IndexCoversFinalFiles ==
  pc \in {"input", "nourls", "loop", "returned", "summary"} =>
     \A n \in finals \cap DOMAIN dir : calculate_file_hash(dir[n]) \in existing_hashes

\* h begins with http:// or https://
HttpPrefixed(h) ==
  /\ Len(h) >= 7
  /\ h[1] = "h" /\ h[2] = "t" /\ h[3] = "t" /\ h[4] = "p"
  /\ \/ h[5] = ":" /\ h[6] = "/" /\ h[7] = "/"
     \/ Len(h) >= 8 /\ h[5] = "s" /\ h[6] = ":" /\ h[7] = "/" /\ h[8] = "/"

\* C19: every URL in main's list, and every URL a call is made for, begins
\* with http:// or https://; a line with another beginning is reported as
\* invalid and leaves the list as it was, with no request made; with no
\* valid URL the program ends without any call.
C19_OnlyHttpUrlsFetched ==
  /\ []( \A i \in 1..Len(urls) : HttpPrefixed(urls[i].head) )
  /\ []( pc \in {"get", "validate"} \cup AfterValidate => HttpPrefixed(url.head) )
  /\ []( (urls = <<>> /\ pc \notin {"seed", "input"}) =>
            /\ pc = "nourls" /\ entered.msg = "no_valid_urls"
            /\ status = 0 /\ out = "none" /\ dir = dir0 )
  /\ [][ (pc = "input" /\ pc' = "input" /\ ~ HttpPrefixed(entered'.line.head)) =>
            /\ entered'.msg = "invalid_url"
            /\ urls' = urls
            /\ status' = 0 /\ dir' = dir ]_vars

\* C19 witness: after a valid URL, a line with another scheme has been
\* reported as invalid and not added.
C19_Witness ==
  /\ pc = "input"
  /\ entered.msg = "invalid_url" /\ ~ HttpPrefixed(entered.line.head)
  /\ Len(urls) = 1 /\ urls[1] # entered.line

====
